---- MODULE Spec2Model ----
(***************************************************************************)
(* A model of the CyberSource payment integration of the ecommerce        *)
(* service: the signature engine and parameter builder of                  *)
(* payment/processors.py and the notification view of payment/views.py.   *)
(*                                                                         *)
(* Text.  A unicode string is modelled as a sequence of tokens.  The two   *)
(* characters the code gives a meaning to, ',' and '=', are tokens of      *)
(* their own; every other token is a run of characters holding neither.    *)
(* u'' is << >>, u'a,b' is <<"a", ",", "b">>.  A dict is a function from   *)
(* keys (single tokens) to values.                                         *)
(***************************************************************************)
EXTENDS Integers, Sequences, FiniteSets, TLC

\* ------------------------------------------------------------------------
\* Python values

\* Python's None, as a dict value or an argument.
None == <<"<None>">>

\* u'{}'.format(x): None prints as the text None.
Format(value) == IF value = None THEN <<"None">> ELSE value

\* Python truthiness of a text-or-None value: None and u'' are false.
Truthy(value) == value # None /\ value # << >>

\* dict.get(key) for a key given as text: the keys of a dict are single tokens.
Get(d, key) == IF Len(key) = 1 /\ key[1] \in DOMAIN d THEN d[key[1]] ELSE None

\* dict item assignment d[k] = v (k a token), adding the key when it is new.
Put(d, k, v) == [x \in DOMAIN d \cup {k} |-> IF x = k THEN v ELSE d[x]]

\* del d[k]
Del(d, k) == [x \in DOMAIN d \ {k} |-> d[x]]

\* The empty dict {}.
EmptyDict == [x \in {} |-> None]

\* unicode.split(u','): the pieces between the commas (u''.split(u',') is [u'']).
RECURSIVE Split(_)
Split(text) ==
    IF \A i \in 1..Len(text) : text[i] # ","
    THEN <<text>>
    ELSE LET i == CHOOSE j \in 1..Len(text) :
                      text[j] = "," /\ \A m \in 1..(j - 1) : text[m] # ","
         IN  <<SubSeq(text, 1, i - 1)>> \o Split(SubSeq(text, i + 1, Len(text)))

\* u','.join(pieces)
RECURSIVE Join(_)
Join(pieces) ==
    IF Len(pieces) = 0 THEN << >>
    ELSE IF Len(pieces) = 1 THEN pieces[1]
    ELSE pieces[1] \o <<",">> \o Join(Tail(pieces))

\* The field names the model uses, in Python's order of unicode strings.
FieldOrder ==
    <<"access_key", "amount", "auth_amount", "consumer_id", "currency", "decision",
      "field_1", "field_2", "locale", "override_custom_cancel_page",
      "override_custom_receipt_page", "profile_id", "reference_number",
      "req_amount", "req_bill_to_address_country", "req_bill_to_forename",
      "req_card_number", "req_currency", "req_reference_number", "req_tax_amount",
      "signature", "signed_date_time", "signed_field_names", "transaction_id",
      "transaction_type", "transaction_uuid", "unsigned_field_names">>

\* A variant of sorted that gives the names in descending order.
sorted_descending(keys) ==
    LET ascending == SelectSeq(FieldOrder, LAMBDA k : k \in keys)
    IN  [i \in 1..Len(ascending) |-> ascending[Len(ascending) + 1 - i]]

\* sorted(keys) for a set of field names.
sorted(keys) == SelectSeq(FieldOrder, LAMBDA k : k \in keys)

\* ------------------------------------------------------------------------
\* Signature engine

\* helpers.sign(message, secret): an HMAC of the message under the key, base64
\* encoded.  Modelled as an ideal MAC: a text determined by the key and the
\* message, different for different (key, message) pairs.
sign(message, secret) == <<"hmac", secret>> \o message

\* ------------------------------------------------------------------------
\* Results and exceptions

\* The outcome of a call: a returned value, or a raised exception.
Return(v) == [exc |-> "none", value |-> v]
Raise(e) == [exc |-> e, value |-> None]

\* The base class of each exception class the code raises; Exception is the root.
\* A variant of BaseClass with PartialAuthorizationError derived from Exception.
BaseClass_partial_authorization_apart ==
    [InvalidSignatureError |-> "GatewayError",
     InvalidCyberSourceDecision |-> "GatewayError",
     PartialAuthorizationError |-> "Exception",
     GatewayError |-> "PaymentError",
     UserCancelled |-> "PaymentError",
     TransactionDeclined |-> "PaymentError",
     PaymentError |-> "Exception",
     UnableToPlaceOrder |-> "Exception",
     KeyError |-> "Exception",
     ValueError |-> "Exception",
     InvalidOperation |-> "Exception",
     DoesNotExist |-> "Exception",
     Exception |-> "Exception"]

\* payment/exceptions.py derives InvalidSignatureError and InvalidCyberSourceDecision
\* from GatewayError and PartialAuthorizationError from PaymentError; oscar derives
\* UserCancelled, TransactionDeclined and GatewayError from PaymentError.
BaseClass ==
    [InvalidSignatureError |-> "GatewayError",
     InvalidCyberSourceDecision |-> "GatewayError",
     PartialAuthorizationError |-> "PaymentError",
     GatewayError |-> "PaymentError",
     UserCancelled |-> "PaymentError",
     TransactionDeclined |-> "PaymentError",
     PaymentError |-> "Exception",
     UnableToPlaceOrder |-> "Exception",
     KeyError |-> "Exception",
     ValueError |-> "Exception",
     InvalidOperation |-> "Exception",
     DoesNotExist |-> "Exception",
     Exception |-> "Exception"]

\* isinstance(e, cls) for an exception of class e: what an except clause tests.
RECURSIVE IsInstance(_, _)
IsInstance(e, cls) ==
    IF e = cls THEN TRUE
    ELSE IF e = "Exception" THEN FALSE
    ELSE IsInstance(BaseClass[e], cls)

\* ------------------------------------------------------------------------
\* Decimal, unicode.lower(), int()

\* The amount literals of the model and the decimal.Decimal each denotes: digits is
\* the coefficient, exp the number of digits after the point.
DecimalLiterals ==
    [x \in {"10.00", "10.0", "0.00", "2.50", "1.00"} |->
        CASE x = "10.00" -> [digits |-> 1000, exp |-> 2]
          [] x = "10.0" -> [digits |-> 100, exp |-> 1]
          [] x = "0.00" -> [digits |-> 0, exp |-> 2]
          [] x = "2.50" -> [digits |-> 250, exp |-> 2]
          [] x = "1.00" -> [digits |-> 100, exp |-> 2]]

\* Decimal(0): the default the view gives a missing req_tax_amount.
DecimalZero == [digits |-> 0, exp |-> 0]

\* Decimal(text): InvalidOperation for a text that is no decimal literal.
Decimal(text) ==
    IF text # None /\ Len(text) = 1 /\ text[1] \in DOMAIN DecimalLiterals
    THEN Return(DecimalLiterals[text[1]])
    ELSE Raise("InvalidOperation")

\* 10 ** n
RECURSIVE Pow10(_)
Pow10(n) == IF n = 0 THEN 1 ELSE 10 * Pow10(n - 1)

\* Decimal subtraction a - b: exact, at the finer of the two exponents.
DecimalSub(a, b) ==
    LET e == IF a.exp > b.exp THEN a.exp ELSE b.exp
    IN  [digits |-> a.digits * Pow10(e - a.exp) - b.digits * Pow10(e - b.exp), exp |-> e]

\* Decimal equality a == b: by numeric value, whatever the exponents.
DecimalEq(a, b) == a.digits * Pow10(b.exp) = b.digits * Pow10(a.exp)

\* unicode.lower() of one token.
LowerToken(t) ==
    CASE t \in {"ACCEPT", "Accept"} -> "accept"
      [] t \in {"CANCEL", "Cancel"} -> "cancel"
      [] t \in {"DECLINE", "Decline"} -> "decline"
      [] t \in {"ERROR", "Error"} -> "error"
      [] t = "REVIEW" -> "review"
      [] OTHER -> t

\* A variant of lower that leaves the text as it is.
lower_unchanged(text) == text

\* unicode.lower()
lower(text) == [i \in 1..Len(text) |-> LowerToken(text[i])]

\* The basket ids the model can name.
MaxBasketId == 3

\* unicode(n) for a small natural number.
unicode(n) == <<ToString(n)>>

\* int(text): ValueError unless the text is a number.
int(text) ==
    IF \E n \in 0..MaxBasketId : text = unicode(n)
    THEN Return(CHOOSE n \in 0..MaxBasketId : text = unicode(n))
    ELSE Raise("ValueError")

\* ------------------------------------------------------------------------
\* The processor (payment/processors.py)

\* Cybersource.NAME
NAME == <<"cybersource">>

\* PaymentEventTypeName.PAID
PAID == <<"paid">>

\* settings.PAYMENT_PROCESSOR_CONFIG of settings/test.py.
PAYMENT_PROCESSOR_CONFIG ==
    [cybersource |->
        [profile_id |-> <<"fake-profile-id">>,
         access_key |-> <<"fake-access-key">>,
         secret_key |-> <<"fake-secret-key">>,
         payment_page_url |-> <<"https://replace-me/">>,
         receipt_page_url |-> <<"https://replace-me/verify_student/payment-confirmation/">>,
         cancel_page_url |-> <<"https://replace-me/">>]]

\* settings.LANGUAGE_CODE
LANGUAGE_CODE == <<"en">>

\* BasePaymentProcessor.configuration: the settings under the processor's name.
configuration(settings) ==
    IF NAME[1] \in DOMAIN settings THEN Return(settings[NAME[1]]) ELSE Raise("KeyError")

\* A variant of Cybersource.__init__ that reads the two page URLs with [] as well.
Cybersource_page_urls_required(settings) ==
    LET c == configuration(settings)
        Required == {"profile_id", "access_key", "secret_key", "payment_page_url",
                     "receipt_page_url", "cancel_page_url"}
    IN  IF c.exc # "none" THEN c
        ELSE IF ~(Required \subseteq DOMAIN c.value) THEN Raise("KeyError")
        ELSE Return([profile_id |-> c.value.profile_id,
                     access_key |-> c.value.access_key,
                     secret_key |-> c.value.secret_key,
                     payment_page_url |-> c.value.payment_page_url,
                     receipt_page_url |-> c.value.receipt_page_url,
                     cancel_page_url |-> c.value.cancel_page_url,
                     language_code |-> LANGUAGE_CODE])

\* Cybersource.__init__: the four required settings are read with [], the two page
\* URLs with .get().
Cybersource(settings) ==
    LET c == configuration(settings)
        Required == {"profile_id", "access_key", "secret_key", "payment_page_url"}
        Optional(k) == IF k \in DOMAIN c.value THEN c.value[k] ELSE None
    IN  IF c.exc # "none" THEN c
        ELSE IF ~(Required \subseteq DOMAIN c.value) THEN Raise("KeyError")
        ELSE Return([profile_id |-> c.value.profile_id,
                     access_key |-> c.value.access_key,
                     secret_key |-> c.value.secret_key,
                     payment_page_url |-> c.value.payment_page_url,
                     receipt_page_url |-> Optional("receipt_page_url"),
                     cancel_page_url |-> Optional("cancel_page_url"),
                     language_code |-> LANGUAGE_CODE])

\* A variant of Message that puts the named fields in sorted order first.
Message_sorted(parameters) ==
    LET names == Split(parameters["signed_field_names"])
        keys == sorted({names[i][1] : i \in {j \in 1..Len(names) : Len(names[j]) = 1}})
    IN  Join([i \in 1..Len(keys) |->
                 <<keys[i], "=">> \o Format(Get(parameters, <<keys[i]>>))])

\* A variant of Message that signs every field the dict has, signature apart,
\* whatever signed_field_names says.
Message_every_field(parameters) ==
    LET keys == sorted(DOMAIN parameters \ {"signature"})
    IN  Join([i \in 1..Len(keys) |->
                 <<keys[i], "=">> \o Format(Get(parameters, <<keys[i]>>))])

\* A variant of Message that signs the names of the fields and not their values.
Message_names_only(parameters) == parameters["signed_field_names"]

\* The message _generate_signature signs: key=value for each key in the order of
\* signed_field_names, joined by commas; a key the dict lacks has the value None.
Message(parameters) ==
    LET keys == Split(parameters["signed_field_names"])
    IN  Join([i \in 1..Len(keys) |->
                 keys[i] \o <<"=">> \o Format(Get(parameters, keys[i]))])

\* Cybersource._generate_signature: KeyError when the dict has no
\* signed_field_names.
_generate_signature(self, parameters) ==
    IF "signed_field_names" \notin DOMAIN parameters THEN Raise("KeyError")
    ELSE Return(sign(Message(parameters), self.secret_key))

\* Cybersource.is_signature_valid: response and (signature == response.get('signature')).
is_signature_valid(self, response) ==
    IF DOMAIN response = {} THEN Return(FALSE)
    ELSE LET signature == _generate_signature(self, response)
         IN  IF signature.exc # "none" THEN signature
             ELSE Return(signature.value = Get(response, <<"signature">>))

\* The validity check the view and the tests call, is_response_valid: false for an
\* empty notification, else the signature recomputed over the fields named in
\* signed_field_names is compared with the signature field.
is_response_valid(self, response) == is_signature_valid(self, response)

\* A variant of SignAllFields that computes the signature while signed_field_names
\* is still empty and fills the names in afterwards.
SignAllFields_names_last(self, parameters) ==
    LET signed_field_names == sorted(DOMAIN parameters)
        signature == _generate_signature(self, parameters).value
    IN  Put(Put(parameters, "signed_field_names",
                Join([i \in 1..Len(signed_field_names) |-> <<signed_field_names[i]>>])),
            "signature", signature)

\* get_transaction_parameters, lines 172-175: signed_field_names is set to the
\* sorted keys the dict has so far, then the signature of the dict is added.
SignAllFields(self, parameters) ==
    LET signed_field_names == sorted(DOMAIN parameters)
        named == Put(parameters, "signed_field_names",
                     Join([i \in 1..Len(signed_field_names) |-> <<signed_field_names[i]>>]))
    IN  Put(named, "signature", _generate_signature(self, named).value)

\* get_transaction_parameters, line 162: the cancel page is the one passed or else
\* the configured one.
CancelPage(self, cancel_page_url) ==
    IF Truthy(cancel_page_url) THEN cancel_page_url ELSE self.cancel_page_url

\* A variant of ReceiptPage that prefers the configured page to the one passed.
ReceiptPage_configured_first(self, basket, receipt_page_url) ==
    IF Truthy(self.receipt_page_url)
    THEN Format(self.receipt_page_url) \o <<"?basket_id", "=">> \o unicode(basket.id)
    ELSE receipt_page_url

\* get_transaction_parameters, lines 166-167: without a receipt page passed, the
\* configured one with the basket id: u'{}?basket_id={}'.format(...).
ReceiptPage(self, basket, receipt_page_url) ==
    IF Truthy(self.receipt_page_url) /\ ~Truthy(receipt_page_url)
    THEN Format(self.receipt_page_url) \o <<"?basket_id", "=">> \o unicode(basket.id)
    ELSE receipt_page_url

\* Cybersource.get_transaction_parameters.  transaction_uuid is uuid.uuid4().hex
\* and signed_date_time the formatted utcnow(): both are inputs here.
get_transaction_parameters(self, basket, receipt_page_url, cancel_page_url, transaction_uuid, signed_date_time) ==
    LET parameters ==
            [access_key |-> self.access_key,
             profile_id |-> self.profile_id,
             transaction_uuid |-> transaction_uuid,
             signed_field_names |-> << >>,
             unsigned_field_names |-> << >>,
             signed_date_time |-> signed_date_time,
             locale |-> self.language_code,
             transaction_type |-> <<"sale">>,
             reference_number |-> unicode(basket.id),
             amount |-> basket.total_incl_tax,
             currency |-> basket.currency,
             consumer_id |-> basket.owner.username]
        \* cancel_page_url = cancel_page_url or self.cancel_page_url
        cancel == CancelPage(self, cancel_page_url)
        withCancel ==
            IF Truthy(cancel)
            THEN Put(parameters, "override_custom_cancel_page", cancel)
            ELSE parameters
        \* u'{}?basket_id={}'.format(self.receipt_page_url, basket.id)
        receipt == ReceiptPage(self, basket, receipt_page_url)
        withReceipt ==
            IF Truthy(receipt)
            THEN Put(withCancel, "override_custom_receipt_page", receipt)
            ELSE withCancel
    IN  SignAllFields(self, withReceipt)

\* A variant of Outcome for a handle_processor_response that calls
\* SourceType.objects.get_or_create before anything else.
Outcome_source_type_first(exc, value, created) ==
    [exc |-> exc, value |-> value, created |-> created \cup {<<"SourceType", <<"cybersource">>>>}]

\* What handle_processor_response hands back: the exception raised or the
\* (source, event) pair returned, and the SourceType and PaymentEventType rows its
\* get_or_create calls asked for on the way.
Outcome(exc, value, created) == [exc |-> exc, value |-> value, created |-> created]

\* The exception handle_processor_response raises for a decision other than accept.
DecisionException(decision) ==
    CASE decision = <<"cancel">> -> "UserCancelled"
      [] decision = <<"decline">> -> "TransactionDeclined"
      [] decision = <<"error">> -> "GatewayError"
      [] OTHER -> "InvalidCyberSourceDecision"

\* A variant of NotAccepted that knows only the three named refusals, so that any
\* other decision passes for accept.
NotAccepted_known_only(decision) ==
    decision \in {<<"cancel">>, <<"decline">>, <<"error">>}

\* handle_processor_response, line 207: the lower-cased decision is not accept.
NotAccepted(decision) == decision # <<"accept">>

\* A variant of AmountsDiffer that never finds a difference.
AmountsDiffer_never(response) == FALSE

\* handle_processor_response, line 220: the authorized amount is not the requested
\* one, as texts.
AmountsDiffer(response) == response["auth_amount"] # response["req_amount"]

\* A variant of Source that takes the card number for the reference and the
\* transaction id for the label.
Source_reference_and_label_swapped(source_type, currency, total, transaction_id, req_card_number) ==
    [source_type |-> source_type,
     currency |-> currency,
     amount_allocated |-> total,
     amount_debited |-> total,
     reference |-> req_card_number,
     label |-> transaction_id]

\* handle_processor_response, lines 230-235: the unsaved Source.
Source(source_type, currency, total, transaction_id, req_card_number) ==
    [source_type |-> source_type,
     currency |-> currency,
     amount_allocated |-> total,
     amount_debited |-> total,
     reference |-> transaction_id,
     label |-> req_card_number]

\* handle_processor_response, line 239: the unsaved PaymentEvent.
PaymentEvent(event_type, total, transaction_id, processor_name) ==
    [event_type |-> event_type,
     amount |-> total,
     reference |-> transaction_id,
     processor_name |-> processor_name]

\* Cybersource.handle_processor_response.
handle_processor_response(self, response, basket) ==
    LET valid == is_signature_valid(self, response)
        source_type == <<"SourceType", NAME>>
        event_type == <<"PaymentEventType", PAID>>
    IN  IF valid.exc # "none" THEN Outcome(valid.exc, None, {})
        ELSE IF ~valid.value THEN Outcome("InvalidSignatureError", None, {})
        ELSE IF "decision" \notin DOMAIN response THEN Outcome("KeyError", None, {})
        ELSE IF NotAccepted(lower(response["decision"]))
             THEN Outcome(DecisionException(lower(response["decision"])), None, {})
        ELSE IF ~({"auth_amount", "req_amount"} \subseteq DOMAIN response)
             THEN Outcome("KeyError", None, {})
        ELSE IF AmountsDiffer(response)
             THEN Outcome("PartialAuthorizationError", None, {})
        ELSE IF "req_currency" \notin DOMAIN response
             THEN Outcome("KeyError", None, {source_type})
        ELSE IF Decimal(response["req_amount"]).exc # "none"
             THEN Outcome("InvalidOperation", None, {source_type})
        ELSE IF ~({"transaction_id", "req_card_number"} \subseteq DOMAIN response)
             THEN Outcome("KeyError", None, {source_type})
        ELSE LET total == Decimal(response["req_amount"]).value
                 source == Source(NAME, response["req_currency"], total,
                                  response["transaction_id"], response["req_card_number"])
                 event == PaymentEvent(PAID, total, response["transaction_id"], NAME)
             IN  Outcome("none", [source |-> source, event |-> event],
                         {source_type, event_type})

\* A Python object handed to record_processor_response: a unicode text or a dict.
PyText(t) == [type |-> "unicode", text |-> t, dict |-> [none |-> None]]
PyDict(d) == [type |-> "dict", text |-> None, dict |-> d]

\* A null foreign key.
NULL == 0

\* A basket variable holding None.
NoBasket == [id |-> NULL, owner |-> [username |-> None], currency |-> None, total_incl_tax |-> None]

\* BasePaymentProcessor.record_processor_response(response, transaction_id, basket):
\* the PaymentProcessorResponse row it creates.
record_processor_response(self, response, transaction_id, basket) ==
    [processor_name |-> NAME,
     transaction_id |-> transaction_id,
     response |-> response,
     basket |-> basket.id]

\* ------------------------------------------------------------------------
\* The store and the collaborators of the view

\* The concurrent requests of the model: Django builds one view object per request.
NumHandlers == 2
Handlers == 1..NumHandlers

\* Basket rows: the baskets checkout created before any notification arrives.
Baskets ==
    {[id |-> 1, owner |-> [username |-> <<"alice">>], currency |-> <<"USD">>,
      total_incl_tax |-> <<"10.00">>],
     [id |-> 2, owner |-> [username |-> <<"bob">>], currency |-> <<"USD">>,
      total_incl_tax |-> <<"10.00">>]}

\* Basket.objects.get(id=basket_id): DoesNotExist when no row has the id.
BasketGet(basket_id) ==
    IF \E b \in Baskets : b.id = basket_id
    THEN Return(CHOOSE b \in Baskets : b.id = basket_id)
    ELSE Raise("DoesNotExist")

\* Country rows, by ISO 3166-1 alpha-2 code.
Countries == {<<"US">>}

\* Country.objects.get(iso_3166_1_a2=code)
CountryGet(code) == IF code \in Countries THEN Return(code) ELSE Raise("DoesNotExist")

\* generate_order_number(basket): oscar's OrderNumberGenerator.
generate_order_number(basket) == 100000 + basket.id

\* The tables this code writes: rows in insertion order, and the names of the
\* SourceType and PaymentEventType rows.
EmptyStore ==
    [responses |-> << >>, orders |-> << >>, sources |-> << >>, events |-> << >>,
     types |-> {}]

\* The rows of one transaction appended to the committed ones.
Commit(store, writes) ==
    [responses |-> store.responses \o writes.responses,
     orders |-> store.orders \o writes.orders,
     sources |-> store.sources \o writes.sources,
     events |-> store.events \o writes.events,
     types |-> store.types \cup writes.types]

\* ------------------------------------------------------------------------
\* Notifications

\* The fields of a notification in the order the processor lists them in
\* signed_field_names.
NotificationFields ==
    <<"decision", "transaction_id", "req_amount", "auth_amount", "req_currency",
      "req_tax_amount", "req_card_number", "req_reference_number",
      "req_bill_to_forename", "req_bill_to_surname", "req_bill_to_address_line1",
      "req_bill_to_address_line2", "req_bill_to_address_city",
      "req_bill_to_address_postal_code", "req_bill_to_address_state",
      "req_bill_to_address_country", "signed_field_names">>

\* A dict with signed_field_names listing its own fields (and signed_field_names)
\* and signature signing them under the key: what the processor posts.
Signed(fields, secret) ==
    LET names == SelectSeq(NotificationFields,
                           LAMBDA k : k \in DOMAIN fields \cup {"signed_field_names"})
        listed == Put(fields, "signed_field_names",
                      Join([i \in 1..Len(names) |-> <<names[i]>>]))
    IN  Put(listed, "signature", sign(Message(listed), secret))

\* The fields of a notification for a payment of 10.00 USD, 1.00 of it tax.
Fields(decision, reference_number, auth_amount, transaction_id) ==
    [decision |-> decision,
     transaction_id |-> transaction_id,
     req_amount |-> <<"10.00">>,
     auth_amount |-> auth_amount,
     req_currency |-> <<"USD">>,
     req_tax_amount |-> <<"1.00">>,
     req_card_number |-> <<"xxxxxxxxxxxx1111">>,
     req_reference_number |-> reference_number,
     req_bill_to_forename |-> <<"Alice">>,
     req_bill_to_surname |-> <<"Doe">>,
     req_bill_to_address_line1 |-> <<"1 Main St">>,
     req_bill_to_address_line2 |-> << >>,
     req_bill_to_address_city |-> <<"Boston">>,
     req_bill_to_address_postal_code |-> <<"02139">>,
     req_bill_to_address_state |-> <<"MA">>,
     req_bill_to_address_country |-> <<"US">>]

\* The secret key the processor shares with this service.
SecretKey == PAYMENT_PROCESSOR_CONFIG.cybersource.secret_key

\* The accepted notification for basket 1 that the variants below start from.
Accepted == Fields(<<"ACCEPT">>, <<"1">>, <<"10.00">>, <<"t1">>)

\* Decisions a notification carries.
Decisions == {<<"ACCEPT">>, <<"CANCEL">>, <<"DECLINE">>, <<"ERROR">>, <<"huh?">>}

\* Notification fields the processor may leave out of a notification.
Droppable ==
    {"decision", "transaction_id", "req_amount", "auth_amount", "req_currency",
     "req_tax_amount", "req_card_number", "req_reference_number",
     "req_bill_to_forename", "req_bill_to_address_country"}

\* Notifications signed by the processor: each decision; baskets that exist, do not
\* exist, or are no number; partial authorizations; a second transaction; a field
\* left out, also from a cancelled payment, which has no transaction; values the
\* view cannot convert or look up.
SignedNotifications ==
    {Signed(Fields(d, <<"1">>, <<"10.00">>, <<"t1">>), SecretKey) : d \in Decisions}
    \cup {Signed(Fields(d, r, <<"10.00">>, <<"t1">>), SecretKey) :
            d \in {<<"ACCEPT">>, <<"DECLINE">>}, r \in {<<"2">>, <<"3">>, <<"abc">>}}
    \cup {Signed(Fields(<<"ACCEPT">>, <<"1">>, a, <<"t1">>), SecretKey) :
            a \in {<<"0.00">>, <<"10.0">>}}
    \cup {Signed(Fields(d, r, <<"10.00">>, <<"t2">>), SecretKey) :
            d \in {<<"ACCEPT">>, <<"accept">>, <<"DECLINE">>}, r \in {<<"1">>, <<"2">>}}
    \cup {Signed(Del(Accepted, f), SecretKey) : f \in Droppable}
    \cup {Signed(Del(Fields(<<"CANCEL">>, r, <<"10.00">>, <<"t1">>), "transaction_id"),
                 SecretKey) : r \in {<<"1">>, <<"3">>}}
    \cup {Signed(Put(Put(Accepted, "req_amount", <<"2.50">>), "auth_amount", <<"2.50">>),
                 SecretKey),
          Signed(Put(Accepted, "req_bill_to_address_country", <<"ZZ">>), SecretKey),
          Signed(Put(Put(Accepted, "req_amount", <<"abc">>), "auth_amount", <<"abc">>),
                 SecretKey),
          Signed(Put(Accepted, "req_tax_amount", <<"abc">>), SecretKey)}

\* Notifications that are not the processor's: a changed or missing signature, a
\* signature under another key, a field changed after signing, no
\* signed_field_names, nothing at all.
ForgedNotifications ==
    {Put(Signed(Accepted, SecretKey), "signature", <<"Tampered">>),
     Del(Signed(Accepted, SecretKey), "signature"),
     Signed(Accepted, <<"other-key">>),
     Put(Signed(Fields(<<"DECLINE">>, <<"1">>, <<"10.00">>, <<"t1">>), SecretKey),
         "decision", <<"ACCEPT">>),
     Put(Signed(Fields(<<"ACCEPT">>, <<"1">>, <<"0.00">>, <<"t1">>), SecretKey),
         "auth_amount", <<"10.00">>),
     Put(Signed(Accepted, SecretKey), "req_reference_number", <<"3">>),
     Del(Signed(Accepted, SecretKey), "signed_field_names"),
     EmptyDict}

\* request.POST.dict() of the requests the model posts.
Notifications == SignedNotifications \cup ForgedNotifications

\* The notifications that arrive while an earlier request is still being handled,
\* or after it: the accepted one again, one for another transaction and basket, a
\* declined one, a partial authorization, one for no basket, a forged one, and two
\* the view cannot handle.
LaterNotifications ==
    {Signed(Accepted, SecretKey),
     Signed(Fields(<<"ACCEPT">>, <<"2">>, <<"10.00">>, <<"t2">>), SecretKey),
     Signed(Fields(<<"DECLINE">>, <<"1">>, <<"10.00">>, <<"t1">>), SecretKey),
     Signed(Fields(<<"ACCEPT">>, <<"1">>, <<"0.00">>, <<"t1">>), SecretKey),
     Signed(Fields(<<"ACCEPT">>, <<"3">>, <<"10.00">>, <<"t1">>), SecretKey),
     Put(Signed(Accepted, SecretKey), "signature", <<"Tampered">>),
     Signed(Del(Accepted, "transaction_id"), SecretKey),
     Signed(Put(Accepted, "req_bill_to_address_country", <<"ZZ">>), SecretKey)}

\* The notifications of requests after the second: the accepted one once more,
\* one for another transaction and basket, a forged one.
LastNotifications ==
    {Signed(Accepted, SecretKey),
     Signed(Fields(<<"ACCEPT">>, <<"2">>, <<"10.00">>, <<"t2">>), SecretKey),
     Put(Signed(Accepted, SecretKey), "signature", <<"Tampered">>)}

\* The notifications request h may carry: any for the first to arrive.
NotificationsOf(h) ==
    IF h = 1 THEN Notifications ELSE IF h = 2 THEN LaterNotifications ELSE LastNotifications

\* The settings a deployment may have: those of settings/test.py; without the two
\* page URLs; with nothing under the processor's name; with one of the other four
\* settings of the processor missing.
DeployedSettings ==
    LET full == PAYMENT_PROCESSOR_CONFIG.cybersource
    IN  {PAYMENT_PROCESSOR_CONFIG,
         [cybersource |-> Del(Del(full, "receipt_page_url"), "cancel_page_url")],
         [paypal |-> [mode |-> <<"sandbox">>]]}
        \cup {[cybersource |-> Del(full, k)] :
                k \in {"profile_id", "access_key", "secret_key", "payment_page_url"}}

\* ------------------------------------------------------------------------
\* The notification view (payment/views.py)

VARIABLES
    settings,         \* django.conf.settings.PAYMENT_PROCESSOR_CONFIG of the deployment
    db,               \* the committed rows of the store
    pc,               \* pc[h]: where request h is in CyberSourceNotifyView.post
    request,          \* request[h]: cybersource_response, the posted dict
    basket,           \* basket[h]: the basket post resolved, or NoBasket
    tx,               \* tx[h]: the rows request h has written and not yet committed
    payment_sources,  \* payment_sources[h]: the view's _payment_sources
    payment_events,   \* payment_events[h]: the view's _payment_events
    order_total,      \* order_total[h]: the prices.Price post computed
    status,           \* status[h]: the HTTP status returned, 0 while in progress
    escaped,          \* escaped[h]: the exception that left post, or "none"
    trace,            \* trace[h]: what request h has done so far, in order
    processor,        \* the processor object whose builder and validator are exercised
    parameters,       \* the dict built, signed or received, then possibly changed
    origin,           \* how parameters came about: start, built, signed, raw
    original,         \* parameters as first built, signed or received
    changed,          \* the fields of parameters changed since, in order; "+" goes
                      \* before a field that was added, "-" before one removed
    verdict,          \* what is_signature_valid said of parameters, once asked
    outcome,          \* what handle_processor_response made of parameters, once asked
    call              \* the arguments get_transaction_parameters was called with

viewVars == <<settings, db, pc, request, basket, tx, payment_sources, payment_events,
              order_total, status, escaped, trace>>

engineVars == <<processor, parameters, origin, original, changed, verdict, outcome, call>>

vars == <<viewVars, engineVars>>

\* The verdict before is_signature_valid was asked.
Pending == [exc |-> "pending", value |-> FALSE]

\* The outcome before handle_processor_response was called.
Unclassified == [exc |-> "pending", value |-> None, created |-> {}]

\* The arguments before get_transaction_parameters was called.
NoCall == [basket |-> NoBasket, receipt_page_url |-> None, cancel_page_url |-> None]

\* prices.Price before post computes one.
NoPrice == [currency |-> None, excl_tax |-> DecimalZero, incl_tax |-> DecimalZero]

Init ==
    /\ settings \in DeployedSettings
    /\ db = EmptyStore
    /\ pc = [h \in Handlers |-> "idle"]
    /\ request = [h \in Handlers |-> EmptyDict]
    /\ basket = [h \in Handlers |-> NoBasket]
    /\ tx = [h \in Handlers |-> EmptyStore]
    /\ payment_sources = [h \in Handlers |-> << >>]
    /\ payment_events = [h \in Handlers |-> << >>]
    /\ order_total = [h \in Handlers |-> NoPrice]
    /\ status = [h \in Handlers |-> 0]
    /\ escaped = [h \in Handlers |-> "none"]
    /\ trace = [h \in Handlers |-> << >>]
    /\ processor = Cybersource(PAYMENT_PROCESSOR_CONFIG).value
    /\ parameters = EmptyDict
    /\ origin = "start"
    /\ original = EmptyDict
    /\ changed = << >>
    /\ verdict = Pending
    /\ outcome = Unclassified
    /\ call = NoCall

\* Rows written by one step: none, or just the named ones.
Writes(responses, orders, sources, events, types) ==
    [responses |-> responses, orders |-> orders, sources |-> sources,
     events |-> events, types |-> types]
NoWrites == EmptyStore

\* post goes on to the step at next, having written some rows.
Continue(h, next, did, writes) ==
    /\ pc' = [pc EXCEPT ![h] = next]
    /\ tx' = [tx EXCEPT ![h] = Commit(tx[h], writes)]
    /\ trace' = [trace EXCEPT ![h] = trace[h] \o did]
    /\ UNCHANGED <<settings, db, status, escaped, engineVars>>

\* post returns HttpResponse(): status 200, and ATOMIC_REQUESTS commits the rows
\* the request wrote.
Respond(h, did, writes) ==
    /\ pc' = [pc EXCEPT ![h] = "done"]
    /\ status' = [status EXCEPT ![h] = 200]
    /\ db' = Commit(db, Commit(tx[h], writes))
    /\ tx' = [tx EXCEPT ![h] = EmptyStore]
    /\ trace' = [trace EXCEPT ![h] = trace[h] \o did]
    /\ UNCHANGED <<settings, escaped, engineVars>>

\* An exception leaves post: Django answers 500, and ATOMIC_REQUESTS rolls back
\* the rows the request wrote.
Abort(h, did, exc) ==
    /\ pc' = [pc EXCEPT ![h] = "done"]
    /\ status' = [status EXCEPT ![h] = 500]
    /\ escaped' = [escaped EXCEPT ![h] = exc]
    /\ tx' = [tx EXCEPT ![h] = EmptyStore]
    /\ trace' = [trace EXCEPT ![h] = trace[h] \o did]
    /\ UNCHANGED <<settings, db, engineVars>>

\* A variant of InvalidResponse that records the notification before it returns.
InvalidResponse_recorded(h, n) ==
    Respond(h, <<"invalid">>,
            Writes(<<record_processor_response(Cybersource(PAYMENT_PROCESSOR_CONFIG).value,
                                               PyDict(n), PyText(Get(n, <<"transaction_id">>)),
                                               NoBasket)>>,
                   << >>, << >>, << >>, {}))

\* post, lines 79-81: an invalid response is logged and post returns.
InvalidResponse(h, n) == Respond(h, <<"invalid">>, NoWrites)

\* dispatch, lines 36-39, and post, lines 76-93: dispatch builds the processor
\* from the settings; the response is validated; the basket is looked up by
\* req_reference_number.  Requests are numbered in the order they arrive; under
\* settings other than those of settings/test.py the later notifications arrive.
Post(h, n) ==
    /\ pc[h] = "idle"
    /\ \A g \in Handlers : g < h => pc[g] # "idle"
    /\ request' = [request EXCEPT ![h] = n]
    /\ UNCHANGED <<payment_sources, payment_events, order_total>>
    /\ settings = PAYMENT_PROCESSOR_CONFIG \/ n \in LaterNotifications
    /\ LET payment_processor == Cybersource(settings)
           valid == is_response_valid(payment_processor.value, n)
           basket_id == int(n["req_reference_number"])
           found == BasketGet(basket_id.value)
       IN  IF payment_processor.exc # "none"
           THEN Abort(h, << >>, payment_processor.exc) /\ UNCHANGED basket
           ELSE IF valid.exc # "none"
           THEN Abort(h, << >>, valid.exc) /\ UNCHANGED basket
           ELSE IF ~valid.value
           THEN InvalidResponse(h, n) /\ UNCHANGED basket
           ELSE IF "req_reference_number" \notin DOMAIN n
           THEN Abort(h, <<"valid">>, "KeyError") /\ UNCHANGED basket
           ELSE IF basket_id.exc # "none" \/ found.exc # "none"
           THEN /\ Continue(h, "record", <<"valid">>, NoWrites)
                /\ basket' = [basket EXCEPT ![h] = NoBasket]
           ELSE /\ Continue(h, "record", <<"valid">>, NoWrites)
                /\ basket' = [basket EXCEPT ![h] = found.value]

\* A variant of Record that writes no row: post goes on to the payment with
\* nothing recorded.
Record_skipped(h) ==
    /\ pc[h] = "record"
    /\ UNCHANGED <<request, basket, payment_sources, payment_events, order_total>>
    /\ IF basket[h] = NoBasket
       THEN Respond(h, << >>, NoWrites)
       ELSE Continue(h, "payment", << >>, NoWrites)

\* post, lines 95-101: the response is recorded; without a basket post returns.
Record(h) ==
    /\ pc[h] = "record"
    /\ UNCHANGED <<request, basket, payment_sources, payment_events, order_total>>
    /\ LET cybersource_response == request[h]
           payment_processor == Cybersource(settings).value
           transaction_id == cybersource_response["transaction_id"]
           ppr == record_processor_response(payment_processor, PyText(transaction_id),
                                            PyDict(cybersource_response), basket[h])
           written == Writes(<<ppr>>, << >>, << >>, << >>, {})
       IN  IF "transaction_id" \notin DOMAIN cybersource_response
           THEN Abort(h, << >>, "KeyError")
           ELSE IF basket[h] = NoBasket
           THEN Respond(h, <<"recorded">>, written)
           ELSE Continue(h, "payment", <<"recorded">>, written)

\* A variant of add_payment_event that appends the event twice.
add_payment_event_twice(events, event) == Append(Append(events, event), event)

\* A variant of add_payment_event with the list kept on the class: it holds the
\* events every request has staged so far.
add_payment_event_on_class(events, event) ==
    LET RECURSIVE Staged(_)
        Staged(g) == IF g = 0 THEN << >> ELSE Staged(g - 1) \o payment_events[g]
    IN  Append(Staged(NumHandlers), event)

\* CyberSourceNotifyView.add_payment_event: the event is appended to the view's
\* list of unsaved payment events, which starts empty.
add_payment_event(events, event) == Append(events, event)

\* CyberSourceNotifyView.handle_payment: the outcome of handle_processor_response;
\* on a return the source and the event are staged on the view
\* (add_payment_source, add_payment_event).
handle_payment(h, payment_processor, response) ==
    handle_processor_response(payment_processor, response, basket[h])

\* A variant of Price that leaves the tax in the tax-exclusive amount.
Price_tax_not_subtracted(currency, _tax, _total) ==
    [currency |-> currency, excl_tax |-> _total, incl_tax |-> _total]

\* post, line 107: prices.Price(currency=currency, excl_tax=_total - _tax,
\* incl_tax=_total).
Price(currency, _tax, _total) ==
    [currency |-> currency, excl_tax |-> DecimalSub(_total, _tax), incl_tax |-> _total]

\* post, lines 103-115: the order total is computed from the notification, then
\* handle_payment classifies it; a PaymentError ends the request with a warning.
HandlePayment(h) ==
    /\ pc[h] = "payment"
    /\ UNCHANGED <<request, basket>>
    /\ LET cybersource_response == request[h]
           payment_processor == Cybersource(settings).value
           _tax == IF "req_tax_amount" \in DOMAIN cybersource_response
                   THEN Decimal(cybersource_response["req_tax_amount"])
                   ELSE Return(DecimalZero)
           _total == Decimal(cybersource_response["req_amount"])
           price == Price(cybersource_response["req_currency"], _tax.value, _total.value)
           handled == handle_payment(h, payment_processor, cybersource_response)
           created == Writes(<< >>, << >>, << >>, << >>, handled.created)
           Fails(exc) ==
               /\ Abort(h, << >>, exc)
               /\ UNCHANGED <<payment_sources, payment_events, order_total>>
       IN  IF "req_currency" \notin DOMAIN cybersource_response THEN Fails("KeyError")
           ELSE IF _tax.exc # "none" THEN Fails(_tax.exc)
           ELSE IF "req_amount" \notin DOMAIN cybersource_response THEN Fails("KeyError")
           ELSE IF _total.exc # "none" THEN Fails(_total.exc)
           ELSE /\ order_total' = [order_total EXCEPT ![h] = price]
                /\ IF handled.exc = "none"
                   THEN /\ payment_sources' =
                               [payment_sources EXCEPT ![h] = Append(@, handled.value.source)]
                        /\ payment_events' =
                               [payment_events EXCEPT ![h] =
                                   add_payment_event(@, handled.value.event)]
                        /\ Continue(h, "place", <<"classified", "staged">>, created)
                   ELSE /\ UNCHANGED <<payment_sources, payment_events>>
                        /\ IF IsInstance(handled.exc, "PaymentError")
                           THEN Respond(h, <<"classified", handled.exc>>, created)
                           ELSE Abort(h, <<"classified">>, handled.exc)

\* The billing address fields post reads, in the order it reads them.
BillingFields ==
    <<"req_bill_to_forename", "req_bill_to_surname", "req_bill_to_address_line1",
      "req_bill_to_address_line2", "req_bill_to_address_city",
      "req_bill_to_address_postal_code", "req_bill_to_address_state",
      "req_bill_to_address_country">>

\* OrderPlacementMixin.handle_order_placement, the order collaborator: it places
\* the order and saves the staged sources and events with it, or signals
\* UnableToPlaceOrder and writes nothing.
handle_order_placement(order_number, user, order_basket, billing_address, total, sources, events, placed) ==
    IF placed
    THEN [exc |-> "none",
          writes |-> Writes(<< >>,
                            <<[number |-> order_number, user |-> user,
                               basket |-> order_basket.id,
                               billing_address |-> billing_address, total |-> total]>>,
                            [i \in 1..Len(sources) |->
                                [order |-> order_number, source |-> sources[i]]],
                            [i \in 1..Len(events) |->
                                [order |-> order_number, event |-> events[i]]],
                            {})]
    ELSE [exc |-> "UnableToPlaceOrder", writes |-> NoWrites]

\* A variant of OrderNotPlaced that lets the exception out of post.
OrderNotPlaced_uncaught(h, exc) == Abort(h, <<"place_order", exc>>, exc)

\* post, lines 138-141: UnableToPlaceOrder is caught and logged, and post returns.
OrderNotPlaced(h, exc) == Respond(h, <<"place_order", exc>>, NoWrites)

\* post, lines 117-143: the billing address is built, the order is placed;
\* UnableToPlaceOrder is logged.
PlaceOrder(h, placed) ==
    /\ pc[h] = "place"
    /\ UNCHANGED <<request, basket, payment_sources, payment_events, order_total>>
    /\ LET cybersource_response == request[h]
           country == CountryGet(cybersource_response["req_bill_to_address_country"])
           billing_address ==
               [k \in {BillingFields[i] : i \in 1..Len(BillingFields)} |->
                   cybersource_response[k]]
           order_number == generate_order_number(basket[h])
           result == handle_order_placement(order_number, basket[h].owner, basket[h],
                                            billing_address, order_total[h],
                                            payment_sources[h], payment_events[h], placed)
       IN  IF \E i \in 1..Len(BillingFields) : BillingFields[i] \notin DOMAIN cybersource_response
           THEN Abort(h, << >>, "KeyError")
           ELSE IF country.exc # "none"
           THEN Abort(h, << >>, country.exc)
           ELSE IF result.exc = "none"
           THEN Respond(h, <<"place_order", "ordered">>, result.writes)
           ELSE OrderNotPlaced(h, result.exc)

Next ==
    \/ \E h \in Handlers : \E n \in NotificationsOf(h) : Post(h, n)
    \/ \E h \in Handlers : Record(h)
    \/ \E h \in Handlers : HandlePayment(h)
    \/ \E h \in Handlers, placed \in BOOLEAN : PlaceOrder(h, placed)

Spec == Init /\ [][Next]_vars

\* ------------------------------------------------------------------------
\* The signature engine, the parameter builder and the classifier on their own

\* Settings with and without the two optional page URLs of the processor.
SettingsChoices ==
    LET full == PAYMENT_PROCESSOR_CONFIG.cybersource
    IN  {[cybersource |-> full],
         [cybersource |-> Del(full, "receipt_page_url")],
         [cybersource |-> Del(full, "cancel_page_url")],
         [cybersource |-> Del(Del(full, "receipt_page_url"), "cancel_page_url")]}

\* The page URL overrides a caller passes: none, an empty text, a URL.
UrlOverrides == {None, << >>, <<"http://example.com/page/">>}

\* uuid.uuid4().hex draws.
Uuids == {<<"0f8fad5bd9cb469fa16570867728950e">>, <<"7c9e6679742540de944be07fc1f90ae7">>}

\* datetime.utcnow() in ISO_8601_FORMAT.
Now == <<"2015-03-14T09:26:53Z">>

\* Dicts in the manner of test_is_response_valid, before they are signed: two
\* fields and a signed_field_names naming them in some order, itself, the
\* signature, a field the dict lacks, or nothing.
SmallResponses ==
    {[field_1 |-> f1, field_2 |-> <<"abc">>, signed_field_names |-> names] :
        f1 \in {<<"123">>, <<"1", ",", "field_2", "=", "abc">>},
        names \in {<<"field_1", ",", "field_2", ",", "signed_field_names">>,
                   <<"field_2", ",", "field_1">>,
                   <<"field_1", ",", "field_2">>,
                   <<"field_1">>,
                   <<"field_1", ",", "signature">>,
                   <<"field_1", ",", "field_3">>,
                   << >>}}

\* fields with signed_field_names listing them: a notification before it is signed.
Listed(fields) == Del(Signed(fields, SecretKey), "signature")

\* Notifications before they are signed: each decision in several spellings, with
\* the authorized amount equal to the requested one, smaller, or written otherwise.
UnsignedNotifications ==
    {Listed(Fields(d, <<"1">>, a, <<"t1">>)) :
        d \in {<<"ACCEPT">>, <<"Accept">>, <<"accept">>, <<"CANCEL">>, <<"cancel">>,
               <<"DECLINE">>, <<"Decline">>, <<"ERROR">>, <<"error">>, <<"REVIEW">>,
               <<"huh?">>, << >>},
        a \in {<<"10.00">>, <<"0.00">>, <<"10.0">>}}

\* Dicts received as they are: nothing, a made-up signature, no signature, no
\* signed_field_names.
ReceivedResponses ==
    {EmptyDict,
     [field_1 |-> <<"123">>, field_2 |-> <<"abc">>,
      signed_field_names |-> <<"field_1", ",", "field_2", ",", "signed_field_names">>,
      signature |-> <<"abc123==">>],
     [field_1 |-> <<"123">>, field_2 |-> <<"abc">>,
      signed_field_names |-> <<"field_1", ",", "field_2", ",", "signed_field_names">>],
     [field_1 |-> <<"123">>, signature |-> <<"abc123==">>],
     Signed(Accepted, <<"other-key">>),
     Put(Signed(Accepted, SecretKey), "signature", <<"Tampered.">>)}

\* The values a field is changed to.
ChangedValues ==
    {<<"999">>, <<"abc">>, << >>, <<"ACCEPT">>, <<"10.00">>, <<"field_1">>,
     <<"field_2", ",", "field_1">>, <<"None">>}

\* A fresh state of the engine variables around a dict.
Start(p, how, d, args) ==
    /\ processor' = p
    /\ call' = args
    /\ parameters' = d
    /\ original' = d
    /\ origin' = how
    /\ changed' = << >>
    /\ verdict' = Pending
    /\ outcome' = Unclassified
    /\ UNCHANGED viewVars

\* A processor is built from the settings and builds the parameters of a basket.
Build(choice, b, receipt_page_url, cancel_page_url, transaction_uuid) ==
    /\ origin = "start"
    /\ LET self == Cybersource(choice).value
       IN  Start(self, "built",
                 get_transaction_parameters(self, b, receipt_page_url, cancel_page_url,
                                            transaction_uuid, Now),
                 [basket |-> b, receipt_page_url |-> receipt_page_url,
                  cancel_page_url |-> cancel_page_url])

\* A dict is signed with the processor's key: the signature of the dict as it
\* stands is stored under 'signature'.
Sign(d) ==
    /\ origin = "start"
    /\ Start(processor, "signed",
             Put(d, "signature", _generate_signature(processor, d).value), NoCall)

\* A dict arrives as it is.
Receive(d) ==
    /\ origin = "start"
    /\ Start(processor, "raw", d, NoCall)

\* The value of one field is changed.
Change(k, v) ==
    /\ origin \in {"built", "signed"}
    /\ changed = << >>
    /\ k \in DOMAIN parameters
    /\ v # parameters[k]
    /\ parameters' = Put(parameters, k, v)
    /\ changed' = Append(changed, k)
    /\ verdict' = Pending
    /\ outcome' = Unclassified
    /\ UNCHANGED <<processor, origin, original, call, viewVars>>

\* Fields that are added to a dict.
AddedFields == {"field_3", "locale", "req_tax_amount"}

\* A field the dict does not have is added to it.
Add(k, v) ==
    /\ origin \in {"built", "signed"}
    /\ changed = << >>
    /\ k \notin DOMAIN parameters
    /\ parameters' = Put(parameters, k, v)
    /\ changed' = <<"+", k>>
    /\ verdict' = Pending
    /\ outcome' = Unclassified
    /\ UNCHANGED <<processor, origin, original, call, viewVars>>

\* A field is removed from the dict.
Remove(k) ==
    /\ origin \in {"built", "signed"}
    /\ changed = << >>
    /\ k \in DOMAIN parameters
    /\ parameters' = Del(parameters, k)
    /\ changed' = <<"-", k>>
    /\ verdict' = Pending
    /\ outcome' = Unclassified
    /\ UNCHANGED <<processor, origin, original, call, viewVars>>

\* is_signature_valid is asked of the dict.
Validate ==
    /\ origin # "start"
    /\ verdict.exc = "pending"
    /\ verdict' = is_signature_valid(processor, parameters)
    /\ UNCHANGED <<processor, parameters, origin, original, changed, outcome, call, viewVars>>

\* handle_processor_response is called with the dict.
Classify(b) ==
    /\ origin # "start"
    /\ outcome.exc = "pending"
    /\ outcome' = handle_processor_response(processor, parameters, b)
    /\ UNCHANGED <<processor, parameters, origin, original, changed, verdict, call, viewVars>>

EngineNext ==
    \/ \E choice \in SettingsChoices, b \in Baskets, r \in UrlOverrides,
          c \in UrlOverrides, u \in Uuids : Build(choice, b, r, c, u)
    \/ \E d \in SmallResponses \cup UnsignedNotifications : Sign(d)
    \/ \E d \in ReceivedResponses : Receive(d)
    \/ \E k \in DOMAIN parameters, v \in ChangedValues : Change(k, v)
    \/ \E k \in AddedFields, v \in {<<"abc">>, << >>} : Add(k, v)
    \/ \E k \in DOMAIN parameters : Remove(k)
    \/ Validate
    \/ \E b \in Baskets : Classify(b)

\* The engine is exercised under the settings of settings/test.py; Build draws
\* the settings of the processor it builds.
EngineInit == Init /\ settings = PAYMENT_PROCESSOR_CONFIG

EngineSpec == EngineInit /\ [][EngineNext]_vars

\* ------------------------------------------------------------------------
\* Properties of the notification view

\* The processor the view builds for every request.
ViewProcessor == Cybersource(PAYMENT_PROCESSOR_CONFIG).value

\* The validity check answers yes, or no, for notification n.
ValidNotification(n) ==
    LET valid == is_response_valid(ViewProcessor, n)
    IN  valid.exc = "none" /\ valid.value
InvalidNotification(n) ==
    LET valid == is_response_valid(ViewProcessor, n)
    IN  valid.exc = "none" /\ ~valid.value

\* The processor's own is_signature_valid answers yes for notification n.
SignatureValid(n) ==
    LET valid == is_signature_valid(ViewProcessor, n)
    IN  valid.exc = "none" /\ valid.value

\* Request h has done e; it did e at some point before it did f.
Has(h, e) == \E i \in 1..Len(trace[h]) : trace[h][i] = e
Earlier(h, e, f) ==
    \A j \in 1..Len(trace[h]) :
        trace[h][j] = f => \E i \in 1..(j - 1) : trace[h][i] = e

\* C1: the order collaborator is invoked for a request only if the request's
\* notification is signature-valid, its req_reference_number resolved to an
\* existing basket, its decision lower-cases to accept and its auth_amount equals
\* its req_amount; every order row comes from such an invocation, so in every
\* other case no order exists.
C1_OrderOnlyForValidAcceptedFullAmount ==
    /\ \A h \in Handlers :
          (Has(h, "place_order") \/ pc[h] = "place" \/ tx[h].orders # << >>) =>
              LET n == request[h]
              IN  /\ SignatureValid(n)
                  /\ basket[h] \in Baskets
                  /\ "req_reference_number" \in DOMAIN n
                  /\ n["req_reference_number"] = unicode(basket[h].id)
                  /\ "decision" \in DOMAIN n
                  /\ lower(n["decision"]) = <<"accept">>
                  /\ {"auth_amount", "req_amount"} \subseteq DOMAIN n
                  /\ n["auth_amount"] = n["req_amount"]
    /\ \A i \in 1..Len(db.orders) :
          \E h \in Handlers :
              /\ Has(h, "ordered")
              /\ db.orders[i].number = generate_order_number(basket[h])
              /\ db.orders[i].basket = basket[h].id
    /\ Len(db.orders) = Cardinality({h \in Handlers : Has(h, "ordered")})

\* C1 happens: a request placed an order, and another, signature-valid, request
\* ended without one.
C1_OrderPlaced ==
    /\ \E h \in Handlers : Has(h, "ordered") /\ status[h] = 200
    /\ \E h \in Handlers :
          pc[h] = "done" /\ SignatureValid(request[h]) /\ ~Has(h, "place_order")
    /\ Len(db.orders) = 1

\* C2: every request ends with HTTP 200 and no exception leaves the view.
C2_AlwaysHttp200 ==
    \A h \in Handlers : pc[h] = "done" => status[h] = 200 /\ escaped[h] = "none"

C4_OneAuditRecordPerValidNotification ==
    (\A h \in Handlers : pc[h] = "done") =>
        Len(db.responses) = Cardinality({h \in Handlers : ValidNotification(request[h])})

\* C5: a request writes the audit record strictly after its validation succeeded
\* and strictly before it classifies the notification, stages a Source or a
\* PaymentEvent, or has the order placed.
C5_AuditRecordBetweenValidationAndPayment ==
    \A h \in Handlers :
        /\ Earlier(h, "valid", "recorded")
        /\ \A e \in {"classified", "staged", "place_order", "ordered"} :
              Earlier(h, "recorded", e)
        /\ Has(h, "recorded") => ValidNotification(request[h])
        /\ (pc[h] \in {"payment", "place"}) => Len(tx[h].responses) = 1
        /\ ~Has(h, "recorded") =>
              /\ tx[h] = EmptyStore
              /\ payment_sources[h] = << >>
              /\ payment_events[h] = << >>
              /\ pc[h] \in {"idle", "record", "done"}

\* C5 happens: a request validated, recorded, classified, staged and placed, in
\* that order.
C5_RecordedThenPaid ==
    \E h \in Handlers :
        trace[h] = <<"valid", "recorded", "classified", "staged", "place_order", "ordered">>

\* C6: the audit record a request writes has processor_name cybersource, the
\* notification's transaction_id as transaction_id, the whole notification as
\* response, and the resolved basket (or null) as basket.
C6_AuditRecordFields ==
    \A h \in Handlers :
        Has(h, "recorded") /\ pc[h] # "done" =>
            tx[h].responses =
                <<[processor_name |-> NAME,
                   transaction_id |-> PyText(request[h]["transaction_id"]),
                   response |-> PyDict(request[h]),
                   basket |-> basket[h].id]>>

\* C10 (view): a signature-valid notification whose decision is accept and whose
\* authorized amount is not the requested amount is classified as
\* PartialAuthorizationError; the request stages no Source and no PaymentEvent,
\* creates none, and never gets to order placement.
C10_PartialAuthorizationStopsPayment ==
    \A h \in Handlers :
        LET n == request[h]
        IN  (/\ pc[h] # "idle"
             /\ SignatureValid(n)
             /\ "decision" \in DOMAIN n
             /\ n["decision"] \in {<<"ACCEPT">>, <<"Accept">>, <<"accept">>}
             /\ {"auth_amount", "req_amount"} \subseteq DOMAIN n
             /\ Decimal(n["auth_amount"]).exc = "none"
             /\ Decimal(n["req_amount"]).exc = "none"
             /\ ~DecimalEq(Decimal(n["auth_amount"]).value, Decimal(n["req_amount"]).value))
            =>
            /\ handle_processor_response(ViewProcessor, n, basket[h]).exc
                  = "PartialAuthorizationError"
            /\ handle_processor_response(ViewProcessor, n, basket[h]).created = {}
            /\ payment_sources[h] = << >>
            /\ payment_events[h] = << >>
            /\ tx[h].sources = << >> /\ tx[h].events = << >> /\ tx[h].types = {}
            /\ tx[h].orders = << >>
            /\ pc[h] # "place"
            /\ ~Has(h, "staged") /\ ~Has(h, "place_order") /\ ~Has(h, "ordered")
            /\ Has(h, "classified") =>
                  trace[h] = <<"valid", "recorded", "classified", "PartialAuthorizationError">>

\* C10 happens: a request for less than the requested amount was classified and
\* answered.
C10_PartialAuthorizationAnswered ==
    \E h \in Handlers :
        /\ trace[h] = <<"valid", "recorded", "classified", "PartialAuthorizationError">>
        /\ request[h]["auth_amount"] = <<"0.00">>
        /\ status[h] = 200

\* ------------------------------------------------------------------------
\* Properties of the signature engine, the builder and the classifier

\* Field k is named in the signed_field_names of dict d.
Names(d, k) ==
    /\ "signed_field_names" \in DOMAIN d
    /\ \E i \in 1..Len(Split(d["signed_field_names"])) :
          Split(d["signed_field_names"])[i] = <<k>>

\* C7: parameters that get_transaction_parameters built, for any basket, any
\* page URL overrides and any configured defaults, pass the processor's own
\* signature validation, and their signature is the one the processor computes
\* for them.
C7_BuiltParametersAreValid ==
    (origin = "built" /\ changed = << >>) =>
        /\ verdict.exc # "pending" => verdict.exc = "none" /\ verdict.value
        /\ "signature" \in DOMAIN parameters
        /\ _generate_signature(processor, parameters).exc = "none"
        /\ _generate_signature(processor, parameters).value = parameters["signature"]

\* C7 happens: parameters with an overridden receipt page and no cancel page
\* were built and validated.
C7_BuiltValidated ==
    /\ origin = "built"
    /\ changed = << >>
    /\ verdict.exc = "none"
    /\ "override_custom_receipt_page" \in DOMAIN parameters
    /\ "override_custom_cancel_page" \notin DOMAIN parameters

\* C8: signature validation says no to an empty notification, no to a
\* notification whose signature field is not the signature of its signed
\* fields, no to a correctly signed notification after the value of any one
\* signed field was changed, and yes to a correctly signed notification.
C8_ValidationAcceptsOnlyCorrectSignature ==
    verdict.exc # "pending" =>
        /\ DOMAIN parameters = {} => verdict.exc = "none" /\ ~verdict.value
        /\ (/\ origin = "raw"
            /\ "signed_field_names" \in DOMAIN parameters
            /\ Get(parameters, <<"signature">>)
                  # sign(Message(parameters), processor.secret_key))
              => verdict.exc = "none" /\ ~verdict.value
        /\ (/\ origin \in {"built", "signed"}
            /\ Len(changed) = 1
            /\ changed[1] # "signature"
            /\ Names(original, changed[1]))
              => verdict.exc = "none" /\ ~verdict.value
        /\ (/\ origin \in {"built", "signed"}
            /\ changed = << >>
            /\ ~Names(parameters, "signature"))
              => verdict.exc = "none" /\ verdict.value

\* C8 happens: a signed notification had its decision changed and was refused.
C8_ChangedFieldRefused ==
    /\ origin = "signed"
    /\ changed = <<"decision">>
    /\ Names(original, "decision")
    /\ verdict.exc = "none"
    /\ ~verdict.value

\* C9: for a signature-valid notification the classification goes by the
\* decision whatever its letter case: cancel gives UserCancelled, decline gives
\* TransactionDeclined, error gives GatewayError, anything that is not accept
\* gives InvalidCyberSourceDecision, and only accept gets to the amount check.
C9_ClassificationByDecision ==
    (/\ outcome.exc # "pending"
     /\ is_signature_valid(processor, parameters).exc = "none"
     /\ is_signature_valid(processor, parameters).value
     /\ "decision" \in DOMAIN parameters) =>
        LET decision == parameters["decision"]
            cancel == {<<"CANCEL">>, <<"Cancel">>, <<"cancel">>}
            decline == {<<"DECLINE">>, <<"Decline">>, <<"decline">>}
            error == {<<"ERROR">>, <<"Error">>, <<"error">>}
            accept == {<<"ACCEPT">>, <<"Accept">>, <<"accept">>}
        IN  /\ decision \in cancel => outcome.exc = "UserCancelled"
            /\ decision \in decline => outcome.exc = "TransactionDeclined"
            /\ decision \in error => outcome.exc = "GatewayError"
            /\ decision \notin cancel \cup decline \cup error \cup accept =>
                  outcome.exc = "InvalidCyberSourceDecision"
            /\ decision \in accept =>
                  outcome.exc \notin {"UserCancelled", "TransactionDeclined",
                                      "GatewayError", "InvalidCyberSourceDecision"}
            /\ outcome.exc \in {"PartialAuthorizationError", "none"} => decision \in accept

\* C9 happens: a notification signed with the decision spelled Decline was
\* classified.
C9_MixedCaseClassified ==
    /\ origin = "signed"
    /\ changed = << >>
    /\ "decision" \in DOMAIN parameters
    /\ parameters["decision"] = <<"Decline">>
    /\ outcome.exc = "TransactionDeclined"

\* C11: for a signature-valid notification whose decision is accept and whose
\* amounts are equal, classification returns one Source and one PaymentEvent:
\* the Source has the processor name as type, req_currency as currency,
\* req_amount as amount allocated and debited, transaction_id as reference and
\* req_card_number as label; the PaymentEvent has type paid, req_amount as
\* amount, transaction_id as reference and the processor name.
C11_SourceAndEventOfAcceptedNotification ==
    (/\ outcome.exc # "pending"
     /\ is_signature_valid(processor, parameters).exc = "none"
     /\ is_signature_valid(processor, parameters).value
     /\ {"decision", "auth_amount", "req_amount", "req_currency", "transaction_id",
         "req_card_number"} \subseteq DOMAIN parameters
     /\ parameters["decision"] \in {<<"ACCEPT">>, <<"Accept">>, <<"accept">>}
     /\ parameters["auth_amount"] = parameters["req_amount"]
     /\ Decimal(parameters["req_amount"]).exc = "none") =>
        /\ outcome.exc = "none"
        /\ outcome.value.source =
              [source_type |-> <<"cybersource">>,
               currency |-> parameters["req_currency"],
               amount_allocated |-> Decimal(parameters["req_amount"]).value,
               amount_debited |-> Decimal(parameters["req_amount"]).value,
               reference |-> parameters["transaction_id"],
               label |-> parameters["req_card_number"]]
        /\ outcome.value.event =
              [event_type |-> <<"paid">>,
               amount |-> Decimal(parameters["req_amount"]).value,
               reference |-> parameters["transaction_id"],
               processor_name |-> <<"cybersource">>]

\* C11 happens: an accepted notification for 10.00 USD was classified.
C11_AcceptedClassified ==
    /\ origin = "signed"
    /\ changed = << >>
    /\ outcome.exc = "none"
    /\ parameters["decision"] = <<"Accept">>
    /\ outcome.value.source.amount_debited = [digits |-> 1000, exp |-> 2]

\* ------------------------------------------------------------------------
\* End-to-end properties of the notification view

\* The decision of notification n is one of the three refusals, in some spelling
\* the model posts, or is not recognized.
Refused(n) ==
    /\ "decision" \in DOMAIN n
    /\ n["decision"] \in {<<"CANCEL">>, <<"DECLINE">>, <<"ERROR">>, <<"huh?">>}

\* req_reference_number of notification n names an existing basket.
NamesBasket(n) ==
    /\ "req_reference_number" \in DOMAIN n
    /\ \E b \in Baskets : n["req_reference_number"] = unicode(b.id)

\* C12: a request with a signature-valid notification for an existing basket
\* whose decision is CANCEL, DECLINE, ERROR or not recognized ends with HTTP 200
\* and its audit record, linked to the basket, committed; it placed no order and
\* staged or persisted no Source and no PaymentEvent.
C12_RefusedPaymentRecordedOnly ==
    \A h \in Handlers :
        (/\ pc[h] = "done"
         /\ SignatureValid(request[h])
         /\ NamesBasket(request[h])
         /\ Refused(request[h])) =>
            /\ status[h] = 200
            /\ Has(h, "recorded")
            /\ Cardinality({i \in 1..Len(trace[h]) : trace[h][i] = "recorded"}) = 1
            /\ \E i \in 1..Len(db.responses) : db.responses[i].basket = basket[h].id
            /\ ~Has(h, "place_order") /\ ~Has(h, "ordered") /\ ~Has(h, "staged")
            /\ payment_sources[h] = << >> /\ payment_events[h] = << >>

\* req_reference_number of notification n is no number or names no basket.
NamesNoBasket(n) ==
    /\ "req_reference_number" \in DOMAIN n
    /\ \A b \in Baskets : n["req_reference_number"] # unicode(b.id)

\* C13: a request with a signature-valid notification whose reference number is
\* no number or names no existing basket ends with HTTP 200 and its audit
\* record, with a null basket link, committed; it reached neither the
\* classification nor the order placement and placed no order, whatever the
\* decision.
C13_UnknownBasketRecordedOnly ==
    \A h \in Handlers :
        (/\ pc[h] = "done"
         /\ SignatureValid(request[h])
         /\ NamesNoBasket(request[h])) =>
            /\ status[h] = 200
            /\ trace[h] = <<"valid", "recorded">>
            /\ basket[h] = NoBasket
            /\ \E i \in 1..Len(db.responses) : db.responses[i].basket = NULL
            /\ payment_sources[h] = << >> /\ payment_events[h] = << >>

\* C14: when a request with a signature-valid, accepted notification with equal
\* amounts gets to order placement and the collaborator signals
\* UnableToPlaceOrder, the view catches it: the request ends with HTTP 200 and
\* its audit record committed, it created no order, and it tried the placement
\* once.
C14_UnableToPlaceOrderIsCaught ==
    \A h \in Handlers :
        Has(h, "UnableToPlaceOrder") =>
            /\ SignatureValid(request[h])
            /\ request[h]["auth_amount"] = request[h]["req_amount"]
            /\ pc[h] = "done"
            /\ status[h] = 200
            /\ escaped[h] = "none"
            /\ trace[h] = <<"valid", "recorded", "classified", "staged", "place_order",
                            "UnableToPlaceOrder">>
            /\ \E i \in 1..Len(db.responses) : db.responses[i].basket = basket[h].id
            /\ Len(db.responses) >= Cardinality({g \in Handlers : Has(g, "UnableToPlaceOrder")})
            /\ Len(db.orders) = Cardinality({g \in Handlers : Has(g, "ordered")})
            /\ db.sources = << >> \/ \E g \in Handlers : Has(g, "ordered")

\* C14 happens: the only request so far could not have its order placed.
C14_OrderCouldNotBePlaced ==
    /\ Has(1, "UnableToPlaceOrder")
    /\ pc[2] = "idle"
    /\ status[1] = 200
    /\ Len(db.responses) = 1
    /\ db.orders = << >>

\* C15: when the only request so far carried a signature-valid ACCEPT
\* notification with equal amounts for an existing basket and its order was
\* placed, the request ended with HTTP 200 and the store holds exactly one audit
\* record, one order, one Source and one PaymentEvent: the audit record and the
\* order are linked to the basket, the Source and the PaymentEvent belong to the
\* order, and the audit record, the Source and the PaymentEvent carry the
\* notification's transaction id.
C15_AcceptedPaymentEndToEnd ==
    \A h \in Handlers :
        (/\ Has(h, "ordered")
         /\ \A g \in Handlers \ {h} : pc[g] = "idle") =>
            LET n == request[h]
            IN  /\ status[h] = 200
                /\ Len(db.responses) = 1
                /\ db.responses[1].basket = basket[h].id
                /\ db.responses[1].transaction_id = PyText(n["transaction_id"])
                /\ Len(db.orders) = 1
                /\ db.orders[1].basket = basket[h].id
                /\ Len(db.sources) = 1
                /\ db.sources[1].order = db.orders[1].number
                /\ db.sources[1].source.reference = n["transaction_id"]
                /\ Len(db.events) = 1
                /\ db.events[1].order = db.orders[1].number
                /\ db.events[1].event.reference = n["transaction_id"]

\* ------------------------------------------------------------------------
\* Properties of the outbound parameters

\* A page URL was given, or is configured: it is neither None nor empty.
Given(url) == url # None /\ url # << >>

\* C16: in built parameters override_custom_cancel_page is present exactly when
\* a cancel URL was passed or is configured, and is the passed URL if there is
\* one, else the configured one; override_custom_receipt_page is present exactly
\* when a receipt URL was passed or is configured, and is the passed URL
\* unchanged if there is one, else the configured one followed by
\* ?basket_id=<basket id>.
C16_PageOverrides ==
    (origin = "built" /\ changed = << >>) =>
        /\ "override_custom_cancel_page" \in DOMAIN parameters
              <=> (Given(call.cancel_page_url) \/ Given(processor.cancel_page_url))
        /\ Given(call.cancel_page_url) =>
              parameters["override_custom_cancel_page"] = call.cancel_page_url
        /\ (~Given(call.cancel_page_url) /\ Given(processor.cancel_page_url)) =>
              parameters["override_custom_cancel_page"] = processor.cancel_page_url
        /\ "override_custom_receipt_page" \in DOMAIN parameters
              <=> (Given(call.receipt_page_url) \/ Given(processor.receipt_page_url))
        /\ Given(call.receipt_page_url) =>
              parameters["override_custom_receipt_page"] = call.receipt_page_url
        /\ (~Given(call.receipt_page_url) /\ Given(processor.receipt_page_url)) =>
              parameters["override_custom_receipt_page"] =
                  processor.receipt_page_url
                      \o <<"?basket_id", "=", ToString(call.basket.id)>>

\* C16 happens: parameters were built for basket 2 with a receipt URL passed and
\* one configured, and with a cancel URL configured only.
C16_PassedReceiptPageWins ==
    /\ origin = "built"
    /\ changed = << >>
    /\ call.basket.id = 2
    /\ Given(call.receipt_page_url)
    /\ Given(processor.receipt_page_url)
    /\ ~Given(call.cancel_page_url)
    /\ Given(processor.cancel_page_url)
    /\ {"override_custom_cancel_page", "override_custom_receipt_page"}
          \subseteq DOMAIN parameters
    /\ parameters["override_custom_cancel_page"] = <<"https://replace-me/">>
    /\ parameters["override_custom_receipt_page"] = <<"http://example.com/page/">>

\* C17: in built parameters signed_field_names is the comma-joined list, in
\* lexicographic order, of exactly the keys of the parameters other than
\* signature (transaction_uuid, signed_field_names, unsigned_field_names and the
\* overrides that were added among them), and the signature is that of the
\* key=value pairs in that order.
C17_SignedFieldNamesAreTheSortedKeys ==
    (origin = "built" /\ changed = << >>) =>
        LET ordered ==
                <<"access_key", "amount", "consumer_id", "currency", "locale",
                  "override_custom_cancel_page", "override_custom_receipt_page",
                  "profile_id", "reference_number", "signed_date_time",
                  "signed_field_names", "transaction_type", "transaction_uuid",
                  "unsigned_field_names">>
            keys == SelectSeq(ordered, LAMBDA k : k \in DOMAIN parameters \ {"signature"})
        IN  /\ DOMAIN parameters \ {"signature"} \subseteq {ordered[i] : i \in 1..Len(ordered)}
            /\ {"signature", "signed_field_names", "transaction_uuid",
                "unsigned_field_names"} \subseteq DOMAIN parameters
            /\ parameters["signed_field_names"] = Join([i \in 1..Len(keys) |-> <<keys[i]>>])
            /\ parameters["signature"] =
                  sign(Join([i \in 1..Len(keys) |-> <<keys[i], "=">> \o parameters[keys[i]]]),
                       processor.secret_key)

\* C17 happens: parameters with both overrides were built.
C17_BuiltWithBothOverrides ==
    /\ origin = "built"
    /\ changed = << >>
    /\ Len(Split(parameters["signed_field_names"])) = 14
    /\ Split(parameters["signed_field_names"])[6] = <<"override_custom_cancel_page">>
    /\ Split(parameters["signed_field_names"])[11] = <<"signed_field_names">>

\* ------------------------------------------------------------------------
\* Properties of the amount check and of the signed message

\* C18: for a signature-valid notification whose decision is accept, the
\* authorized and the requested amount are compared as decimal values: two
\* amounts that denote the same value, however written, do not raise
\* PartialAuthorizationError, and two that denote different values do.
C18_AmountsComparedAsDecimals ==
    (/\ outcome.exc # "pending"
     /\ is_signature_valid(processor, parameters).exc = "none"
     /\ is_signature_valid(processor, parameters).value
     /\ {"decision", "auth_amount", "req_amount"} \subseteq DOMAIN parameters
     /\ parameters["decision"] \in {<<"ACCEPT">>, <<"Accept">>, <<"accept">>}
     /\ Decimal(parameters["auth_amount"]).exc = "none"
     /\ Decimal(parameters["req_amount"]).exc = "none") =>
        LET auth_amount == Decimal(parameters["auth_amount"]).value
            req_amount == Decimal(parameters["req_amount"]).value
        IN  outcome.exc = "PartialAuthorizationError"
                <=> auth_amount.digits * Pow10(req_amount.exp)
                        # req_amount.digits * Pow10(auth_amount.exp)

\* The field last changed, added or removed.
Touched == changed[Len(changed)]

Reordered(a, b) ==
    /\ a # b
    /\ Len(Split(a)) = Len(Split(b))
    /\ {Split(a)[i] : i \in 1..Len(Split(a))} = {Split(b)[i] : i \in 1..Len(Split(b))}

\* C20: validation signs the fields named in signed_field_names in the order
\* they are named there, not sorted: a dict is valid exactly if its signature
\* field is the signature of name=value, ..., in that order; and a signed dict
\* whose signed_field_names is changed to name the same fields in another order
\* is not valid.
C20_SignedInTheOrderListed ==
    /\ (verdict.exc = "none" /\ "signed_field_names" \in DOMAIN parameters) =>
          LET names == Split(parameters["signed_field_names"])
              listed == Join([i \in 1..Len(names) |->
                                 names[i] \o <<"=">>
                                     \o (IF Len(names[i]) = 1 /\ names[i][1] \in DOMAIN parameters
                                         THEN parameters[names[i][1]]
                                         ELSE <<"None">>)])
          IN  verdict.value
                  <=> (/\ "signature" \in DOMAIN parameters
                       /\ parameters["signature"] = sign(listed, processor.secret_key))
    /\ (/\ origin \in {"built", "signed"}
        /\ changed = <<"signed_field_names">>
        /\ Reordered(parameters["signed_field_names"], original["signed_field_names"])
        /\ verdict.exc # "pending")
          => verdict.exc = "none" /\ ~verdict.value

\* C20 happens: a dict signed with its fields named out of sorted order was
\* found valid.
C20_UnsortedNamesValid ==
    /\ origin = "signed"
    /\ changed = << >>
    /\ parameters["signed_field_names"] = <<"field_2", ",", "field_1">>
    /\ verdict.exc = "none"
    /\ verdict.value

\* ------------------------------------------------------------------------
\* Properties of the faults of handle_processor_response

\* The faults handle_processor_response raises by design.
ClassificationFaults ==
    {"InvalidSignatureError", "UserCancelled", "TransactionDeclined", "GatewayError",
     "InvalidCyberSourceDecision", "PartialAuthorizationError"}

\* C21: when handle_processor_response ends in one of its faults (invalid
\* signature, cancel, decline, error, unrecognized decision, partial
\* authorization), the call created no row, neither a SourceType nor a
\* PaymentEventType, and returned no Source and no PaymentEvent to be saved.
C21_FaultsWriteNothing ==
    outcome.exc \in ClassificationFaults =>
        /\ outcome.created = {}
        /\ outcome.value = None

\* C21 happens: a signed notification with a smaller authorized amount ended in
\* PartialAuthorizationError.
C21_PartialAuthorizationRaised ==
    /\ origin = "signed"
    /\ changed = << >>
    /\ outcome.exc = "PartialAuthorizationError"
    /\ parameters["auth_amount"] = <<"0.00">>

\* The signature field of dict d is the signature of the fields d names in
\* signed_field_names.
SignatureCorrect(d) ==
    /\ {"signed_field_names", "signature"} \subseteq DOMAIN d
    /\ d["signature"] = sign(Message(d), SecretKey)

\* C22: handle_processor_response looks at the signature first: for a
\* notification whose signature is not correct it raises InvalidSignatureError,
\* whatever the decision and the amounts, and returns no Source and no
\* PaymentEvent.
C22_InvalidSignatureRaisedFirst ==
    (/\ outcome.exc # "pending"
     /\ processor.secret_key = SecretKey
     /\ ~SignatureCorrect(parameters)) =>
        outcome.exc = "InvalidSignatureError"

\* ------------------------------------------------------------------------
\* Properties of the store and of requests handled side by side

\* C23: a Source and a PaymentEvent become durable only with an order: the store
\* holds as many Sources as PaymentEvents as orders, the i-th order has the i-th
\* Source and the i-th PaymentEvent and no other, both with the same transaction
\* reference, and no request has a Source, PaymentEvent or order pending.
C23_SourceAndEventOnlyWithAnOrder ==
    /\ Len(db.sources) = Len(db.orders)
    /\ Len(db.events) = Len(db.orders)
    /\ \A i \in 1..Len(db.orders) :
          /\ db.sources[i].order = db.orders[i].number
          /\ db.events[i].order = db.orders[i].number
          /\ db.events[i].event.reference = db.sources[i].source.reference
    /\ \A h \in Handlers :
          /\ tx[h].sources = << >>
          /\ tx[h].events = << >>
          /\ tx[h].orders = << >>
          /\ Len(payment_sources[h]) = Len(payment_events[h])

\* C23 happens: two orders were placed for two transactions, each with its Source
\* and its PaymentEvent.
C23_TwoOrdersPlaced ==
    /\ Len(db.orders) = 2
    /\ db.sources[1].source.reference # db.sources[2].source.reference

\* CyberSourceNotifyView.dispatch and post for notification n when no other
\* request is being handled: the status it answers with, the exception that leaves it, and what it
\* does, in order; placed says whether the order collaborator places the order.
post(n, placed) ==
    LET built == Cybersource(settings)
        payment_processor == built.value
        valid == is_response_valid(payment_processor, n)
        basket_id == int(n["req_reference_number"])
        found == BasketGet(basket_id.value)
        the_basket == IF basket_id.exc # "none" \/ found.exc # "none"
                      THEN NoBasket ELSE found.value
        _tax == IF "req_tax_amount" \in DOMAIN n
                THEN Decimal(n["req_tax_amount"]) ELSE Return(DecimalZero)
        _total == Decimal(n["req_amount"])
        handled == handle_processor_response(payment_processor, n, the_basket)
        country == CountryGet(n["req_bill_to_address_country"])
        Answer(did) == [status |-> 200, escaped |-> "none", trace |-> did]
        Fault(did, exc) == [status |-> 500, escaped |-> exc, trace |-> did]
    IN  IF built.exc # "none" THEN Fault(<< >>, built.exc)
        ELSE IF valid.exc # "none" THEN Fault(<< >>, valid.exc)
        ELSE IF ~valid.value THEN Answer(<<"invalid">>)
        ELSE IF "req_reference_number" \notin DOMAIN n THEN Fault(<<"valid">>, "KeyError")
        ELSE IF "transaction_id" \notin DOMAIN n THEN Fault(<<"valid">>, "KeyError")
        ELSE IF the_basket = NoBasket THEN Answer(<<"valid", "recorded">>)
        ELSE IF "req_currency" \notin DOMAIN n
        THEN Fault(<<"valid", "recorded">>, "KeyError")
        ELSE IF _tax.exc # "none" THEN Fault(<<"valid", "recorded">>, _tax.exc)
        ELSE IF "req_amount" \notin DOMAIN n
        THEN Fault(<<"valid", "recorded">>, "KeyError")
        ELSE IF _total.exc # "none" THEN Fault(<<"valid", "recorded">>, _total.exc)
        ELSE IF handled.exc # "none" /\ IsInstance(handled.exc, "PaymentError")
        THEN Answer(<<"valid", "recorded", "classified", handled.exc>>)
        ELSE IF handled.exc # "none"
        THEN Fault(<<"valid", "recorded", "classified">>, handled.exc)
        ELSE IF \E i \in 1..Len(BillingFields) : BillingFields[i] \notin DOMAIN n
        THEN Fault(<<"valid", "recorded", "classified", "staged">>, "KeyError")
        ELSE IF country.exc # "none"
        THEN Fault(<<"valid", "recorded", "classified", "staged">>, country.exc)
        ELSE IF placed
        THEN Answer(<<"valid", "recorded", "classified", "staged", "place_order",
                      "ordered">>)
        ELSE Answer(<<"valid", "recorded", "classified", "staged", "place_order",
                      "UnableToPlaceOrder">>)

\* The transaction id of request h, None without one.
TransactionOf(h) == Get(request[h], <<"transaction_id">>)

\* The requests received so far name pairwise different transactions.
DifferentTransactions ==
    \A g, h \in Handlers :
        (g # h /\ pc[g] # "idle" /\ pc[h] # "idle") =>
            TransactionOf(g) # TransactionOf(h)

\* C24: whatever the interleaving, requests for different transactions do not
\* affect each other: a finished request has answered, failed and acted as it
\* does when handled alone, with the order collaborator placing its order or
\* not as it did; the Source and the PaymentEvent a request has staged
\* are its own; and every Source and PaymentEvent saved with an order carries the
\* transaction of a request that placed the order of that number.
C24_RequestsAreIndependent ==
    DifferentTransactions =>
        /\ \A h \in Handlers :
              pc[h] = "done" =>
                  LET alone == post(request[h], Has(h, "ordered"))
                  IN  /\ status[h] = alone.status
                      /\ escaped[h] = alone.escaped
                      /\ trace[h] = alone.trace
        /\ \A h \in Handlers :
              /\ \A i \in 1..Len(payment_sources[h]) :
                    payment_sources[h][i].reference = TransactionOf(h)
              /\ \A i \in 1..Len(payment_events[h]) :
                    payment_events[h][i].reference = TransactionOf(h)
        /\ \A i \in 1..Len(db.sources) :
              \E h \in Handlers :
                  /\ Has(h, "ordered")
                  /\ db.sources[i].order = generate_order_number(basket[h])
                  /\ db.sources[i].source.reference = TransactionOf(h)
        /\ \A i \in 1..Len(db.events) :
              \E h \in Handlers :
                  /\ Has(h, "ordered")
                  /\ db.events[i].order = generate_order_number(basket[h])
                  /\ db.events[i].event.reference = TransactionOf(h)

\* C24 happens: every request placed an order, the first two for different
\* transactions and baskets, and the request that arrived second placed its
\* order before the first one did.
C24_InterleavedOrders ==
    /\ \A h \in Handlers : pc[h] = "done" /\ Has(h, "ordered")
    /\ TransactionOf(1) # TransactionOf(2)
    /\ basket[1] # basket[2]
    /\ db.orders[1].number = generate_order_number(basket[2])

\* Every request has been handled, and all of them delivered notification n.
DeliveredToAll(n) == \A h \in Handlers : pc[h] = "done" /\ request[h] = n

\* Classification accepts notification n for the basket it names.
AcceptedNotification(n) ==
    /\ "req_reference_number" \in DOMAIN n
    /\ int(n["req_reference_number"]).exc = "none"
    /\ BasketGet(int(n["req_reference_number"]).value).exc = "none"
    /\ handle_processor_response(ViewProcessor, n,
           BasketGet(int(n["req_reference_number"]).value).value).exc = "none"

\* C25: nothing is deduplicated by transaction id: when the same signature-valid
\* notification was delivered to every request, the store holds one audit record
\* per delivery, all with the processor's name and the same transaction id, and
\* if the notification is an accepted one every delivery was classified and
\* got to the order placement.
C25_EveryDeliveryRecorded ==
    \A n \in LaterNotifications :
        (ValidNotification(n) /\ DeliveredToAll(n)) =>
            /\ Len(db.responses) = NumHandlers
            /\ \A i \in 1..Len(db.responses) :
                  /\ db.responses[i].processor_name = NAME
                  /\ db.responses[i].transaction_id = db.responses[1].transaction_id
            /\ AcceptedNotification(n) =>
                  \A h \in Handlers : Has(h, "classified") /\ Has(h, "place_order")

\* C26: an audit record, once written, stays: whatever step its request takes
\* next, the record is still pending unchanged or has been committed to the
\* store unchanged, and committed records are never changed or removed.
C26_AuditRecordIsNeverUndone ==
    [][/\ \A h \in Handlers :
             tx[h].responses # << >> =>
                 \/ tx'[h].responses = tx[h].responses
                 \/ db'.responses = db.responses \o tx[h].responses
       /\ Len(db'.responses) >= Len(db.responses)
       /\ SubSeq(db'.responses, 1, Len(db.responses)) = db.responses]_vars

\* ------------------------------------------------------------------------
\* Properties of faults and of the processor's construction

\* C27: signature validation is total: asked about any dict, also one without
\* signed_field_names or without signature, or one that names a field it does
\* not carry, is_signature_valid answers yes or no and raises nothing.
C27_ValidationNeverRaises == verdict.exc \in {"pending", "none"}

\* C28: each fault classification raises is a PaymentError, and the view catches
\* PaymentError around handle_payment: a request whose classification raised one
\* is over, answered with HTTP 200 right after the fault was logged, and no such
\* fault ever leaves post.
C28_ClassificationFaultsAreCaught ==
    /\ \A e \in ClassificationFaults : IsInstance(e, "PaymentError")
    /\ \A h \in Handlers :
          /\ escaped[h] \notin ClassificationFaults
          /\ \A e \in ClassificationFaults :
                Has(h, e) =>
                    /\ pc[h] = "done"
                    /\ status[h] = 200
                    /\ escaped[h] = "none"
                    /\ trace[h] = <<"valid", "recorded", "classified", e>>

\* C28 happens: one request ended with a decision that is not recognized,
\* another with a partial authorization, both acknowledged.
C28_TwoFaultsAcknowledged ==
    /\ Has(1, "InvalidCyberSourceDecision")
    /\ Has(2, "PartialAuthorizationError")
    /\ status[1] = 200
    /\ status[2] = 200

\* A Decimal of at most two places, in hundredths.
Hundredths(d) == d.digits * Pow10(2 - d.exp)

\* C29: the order total comes from the notification alone: once post has
\* classified the payment, its order total has the currency req_currency, the
\* tax-inclusive amount req_amount and the tax-exclusive amount req_amount less
\* req_tax_amount, with 0 for a missing req_tax_amount; every order placed has
\* the order total of a request that placed it.
C29_OrderTotalFromNotification ==
    /\ \A h \in Handlers :
          (pc[h] = "place" \/ Has(h, "staged")) =>
              LET n == request[h]
                  amount == Decimal(n["req_amount"]).value
                  tax == IF "req_tax_amount" \in DOMAIN n
                         THEN Hundredths(Decimal(n["req_tax_amount"]).value)
                         ELSE 0
              IN  /\ order_total[h].currency = n["req_currency"]
                  /\ order_total[h].incl_tax = amount
                  /\ Hundredths(order_total[h].excl_tax) = Hundredths(amount) - tax
    /\ \A i \in 1..Len(db.orders) :
          \E h \in Handlers :
              /\ Has(h, "ordered")
              /\ db.orders[i].number = generate_order_number(basket[h])
              /\ db.orders[i].total = order_total[h]

\* C29 happens: an order was placed for a notification of 10.00 without
\* req_tax_amount, with 10.00 before tax, and one for a notification of 10.00
\* with 1.00 of tax, with 9.00 before tax.
C29_OrdersWithAndWithoutTax ==
    /\ Len(db.orders) = 2
    /\ "req_tax_amount" \notin DOMAIN request[1]
    /\ Has(1, "ordered")
    /\ Hundredths(order_total[1].excl_tax) = 1000
    /\ Has(2, "ordered")
    /\ Hundredths(order_total[2].excl_tax) = 900
    /\ Hundredths(order_total[2].incl_tax) = 1000

\* The settings the processor cannot do without.
RequiredSettings == {"profile_id", "access_key", "secret_key", "payment_page_url"}

\* The settings hold a configuration under the processor's name, with every
\* required setting.
Configured ==
    /\ "cybersource" \in DOMAIN settings
    /\ RequiredSettings \subseteq DOMAIN settings.cybersource

\* C30: the processor can be built exactly when the settings hold a configuration
\* under its name with profile_id, access_key, secret_key and payment_page_url; a
\* missing receipt_page_url or cancel_page_url is none.  When it cannot be built,
\* every request fails with KeyError in dispatch: nothing was validated, nothing
\* was recorded, no row was written.
C30_ConstructionNeedsRequiredSettings ==
    LET built == Cybersource(settings)
    IN  /\ built.exc = "none" <=> Configured
        /\ built.exc # "none" => built.exc = "KeyError"
        /\ built.exc = "none" =>
              \A k \in {"receipt_page_url", "cancel_page_url"} :
                  built.value[k] = IF k \in DOMAIN settings.cybersource
                                   THEN settings.cybersource[k] ELSE None
        /\ built.exc # "none" =>
              /\ db = EmptyStore
              /\ \A h \in Handlers :
                    /\ tx[h] = EmptyStore
                    /\ trace[h] = << >>
                    /\ pc[h] # "idle" =>
                          /\ pc[h] = "done"
                          /\ status[h] = 500
                          /\ escaped[h] = "KeyError"

\* C30 happens: under settings without secret_key two correctly signed
\* notifications were posted, and both requests failed in dispatch.
C30_RequestsFailedInDispatch ==
    /\ "cybersource" \in DOMAIN settings
    /\ "secret_key" \notin DOMAIN settings.cybersource
    /\ \A h \in Handlers :
          /\ pc[h] = "done"
          /\ escaped[h] = "KeyError"
          /\ SignatureValid(request[h])

====
